---- MODULE Spec2Model ----
(***************************************************************************)
(* A model of the Minesweeper knowledge base of minesweeper.py: the        *)
(* Sentence class, MinesweeperAI.add_knowledge, the fixpoint loop of       *)
(* MinesweeperAI.update_knowledge and MinesweeperAI.make_safe_move, played *)
(* against a board whose true mines are fixed when the game starts.        *)
(*                                                                         *)
(* Spec runs update_knowledge in list order, one step per visited sentence *)
(* and per visited pair of sentences; FairSpec adds that a call, once      *)
(* begun, runs to its return; AnyOrderSpec leaves the visiting orders open *)
(* and keeps what the list-order run makes of the same call.               *)
(***************************************************************************)
EXTENDS Integers, FiniteSets, Sequences, TLC

\* ------------------------------------------------------------------ bounds
MaxHeight == 3
MaxWidth == 3
MaxMines == 2
MaxCalls == 3
\* The counter of rounds stops counting here.
MaxRounds == 4
\* add_knowledge's count, when the caller chooses it, is in 0..MaxCount.
MaxCount == 1
\* The runs that call mark_mine and mark_safe directly start from a list of
\* at most MaxSentences sentences over a board of at most MaxCells cells.
MaxSentences == 2
MaxCells == 4

\* ------------------------------------------------------------------ state
VARIABLES
    height,      \* MinesweeperAI.height
    width,       \* MinesweeperAI.width
    truth,       \* the board's true mines (the game the caller observes)
    moves_made,  \* MinesweeperAI.moves_made
    mines,       \* MinesweeperAI.mines
    safes,       \* MinesweeperAI.safes
    knowledge,   \* MinesweeperAI.knowledge, a list of Sentences
    pc,          \* where update_knowledge stands; "idle" between calls; the
                 \* method that returned last where marks are called directly
    changed,     \* update_knowledge's local `changed`
    i,           \* position of the outer for loop (sentence / sentence1)
    j,           \* position of the inner for loop (sentence2)
    calls,       \* number of add_knowledge calls made so far
    cell,        \* add_knowledge's argument `cell` in the latest call
    rounds,      \* rounds of the while loop begun in the latest call
    safe_move,   \* what the last make_safe_move returned, if it was called
    hist,        \* the (cell, count) arguments of the calls so far, recorded
                 \* for the runs where the caller chooses the counts
    random_move, \* make_random_move: not called, in its loop, or what it returned
    conf         \* for the runs in any visiting order: the sentences the
                 \* extraction pass has still to visit (todo), the length of
                 \* the list when the subsumption pass began (first) and what
                 \* update_knowledge makes of the call in list order (reference)

vars == <<height, width, truth, moves_made, mines, safes, knowledge,
          pc, changed, i, j, calls, cell, rounds, safe_move, hist, random_move,
          conf>>

\* ------------------------------------------------------------------ Sentence
\* Sentence.__init__
Sentence(cells, count) == [cells |-> cells, count |-> count]

\* Sentence.__eq__
SentenceEq(s, t) == s.cells = t.cells /\ s.count = t.count

\* known_mines with the test off by one.
known_mines_off_by_one(s) == IF s.count = Cardinality(s.cells) - 1 THEN s.cells ELSE {}

\* Sentence.known_mines
known_mines(s) == IF s.count = Cardinality(s.cells) THEN s.cells ELSE {}

\* known_safes with the test of known_mines.
known_safes_when_full(s) == IF s.count = Cardinality(s.cells) THEN s.cells ELSE {}

\* Sentence.known_safes
known_safes(s) == IF s.count = 0 THEN s.cells ELSE {}

\* Sentence.mark_mine without `if cell in self.cells`.
sentence_mark_mine_always(s, c) == Sentence(s.cells \ {c}, s.count - 1)

\* Sentence.mark_mine
sentence_mark_mine(s, c) ==
    IF c \in s.cells
    THEN [cells |-> s.cells \ {c}, count |-> s.count - 1]
    ELSE s

\* mark_safe with the body of mark_mine.
sentence_mark_safe_decrements(s, c) ==
    IF c \in s.cells
    THEN [cells |-> s.cells \ {c}, count |-> s.count - 1]
    ELSE s

\* Sentence.mark_safe
sentence_mark_safe(s, c) ==
    IF c \in s.cells
    THEN [cells |-> s.cells \ {c}, count |-> s.count]
    ELSE s

\* ------------------------------------------------------------------ MinesweeperAI
\* The part of the knowledge base that mark_mine / mark_safe touch.
KB(m, s, k) == [mines |-> m, safes |-> s, knowledge |-> k]

\* MinesweeperAI.mark_mine
mark_mine(kb, c) ==
    [kb EXCEPT !.mines = @ \cup {c},
               !.knowledge = [n \in DOMAIN @ |-> sentence_mark_mine(@[n], c)]]

\* mark_safe without `self.safes.add(cell)`.
mark_safe_unrecorded(kb, c) ==
    [kb EXCEPT !.knowledge = [n \in DOMAIN @ |-> sentence_mark_safe(@[n], c)]]

\* mark_safe without the loop over the sentences of `knowledge`.
mark_safe_unnarrowed(kb, c) == [kb EXCEPT !.safes = @ \cup {c}]

\* MinesweeperAI.mark_safe
mark_safe(kb, c) ==
    [kb EXCEPT !.safes = @ \cup {c},
               !.knowledge = [n \in DOMAIN @ |-> sentence_mark_safe(@[n], c)]]

\* `for safe in safes: self.mark_safe(safe)`
RECURSIVE mark_safe_all(_, _)
mark_safe_all(kb, cells) ==
    IF cells = {} THEN kb
    ELSE LET c == CHOOSE x \in cells : TRUE
         IN  mark_safe_all(mark_safe(kb, c), cells \ {c})

\* `for mine in mines: self.mark_mine(mine)`
RECURSIVE mark_mine_all(_, _)
mark_mine_all(kb, cells) ==
    IF cells = {} THEN kb
    ELSE LET c == CHOOSE x \in cells : TRUE
         IN  mark_mine_all(mark_mine(kb, c), cells \ {c})

\* get_neighbors with range(i - 1, i + 1), range(j - 1, j + 1).
get_neighbors_short(h, w, c) ==
    {<<x, y>> : x \in (c[1] - 1)..c[1], y \in (c[2] - 1)..c[2]}
        \cap {n \in (0..(h - 1)) \X (0..(w - 1)) : n # c}

\* MinesweeperAI.get_neighbors
get_neighbors(h, w, c) ==
    {<<x, y>> : x \in (c[1] - 1)..(c[1] + 1), y \in (c[2] - 1)..(c[2] + 1)}
        \cap {n \in (0..(h - 1)) \X (0..(w - 1)) : n # c}

\* The cells of the board.
Board == (0..(height - 1)) \X (0..(width - 1))

\* The cells of the board next to c, diagonals included.
Adjacent(c) ==
    {n \in Board : n # c /\ n[1] - c[1] \in -1..1 /\ n[2] - c[2] \in -1..1}

\* What the game reports for a revealed cell: the true mines around it.
nearby_mines(c) == Cardinality(Adjacent(c) \cap truth)

\* `sentence in self.knowledge`, by Sentence.__eq__
InKnowledge(s, k) == \E n \in DOMAIN k : SentenceEq(k[n], s)

\* ------------------------------------------------------------------ Init
NoMove == [called |-> FALSE, cell |-> {}]

\* make_random_move has not been called since the last observation.
NoRandom == [phase |-> "none", cell |-> {}]

NoOrder == [todo |-> {}, first |-> 0, reference |-> KB({}, {}, <<>>)]

Init ==
    /\ height \in 1..MaxHeight
    /\ width \in 1..MaxWidth
    /\ truth \in {t \in SUBSET ((0..(height - 1)) \X (0..(width - 1))) :
                    Cardinality(t) <= MaxMines}
    /\ moves_made = {}
    /\ mines = {}
    /\ safes = {}
    /\ knowledge = <<>>
    /\ pc = "idle"
    /\ changed = FALSE
    /\ i = 1
    /\ j = 1
    /\ calls = 0
    /\ cell = <<0, 0>>
    /\ rounds = 0
    /\ safe_move = NoMove
    /\ hist = <<>>
    /\ random_move = NoRandom
    /\ conf = NoOrder

\* ------------------------------------------------------------------ add_knowledge
\* new_sentence without `count -= 1` for the neighbours already in `mines`.
new_sentence_keeps_count(kb, c, count) ==
    Sentence({n \in get_neighbors(height, width, c) :
                n \notin kb.safes /\ n \notin kb.mines}, count)

\* new_sentence without `if neighbor in self.safes: continue`.
new_sentence_with_safes(kb, c, count) ==
    LET neighbors == get_neighbors(height, width, c)
    IN  Sentence({n \in neighbors : n \notin kb.mines},
                 count - Cardinality({n \in neighbors : n \in kb.mines}))

\* new_sentence without the test `if neighbor in self.mines` (lines 86-88).
new_sentence_mines_kept(kb, c, count) ==
    Sentence({n \in get_neighbors(height, width, c) : n \notin kb.safes}, count)

\* The sentence add_knowledge builds from the neighbours (lines 81-90).
new_sentence(kb, c, count) ==
    LET neighbors == get_neighbors(height, width, c)
        unknown_neighbors == {n \in neighbors : n \notin kb.safes /\ n \notin kb.mines}
        known_mine_neighbors == {n \in neighbors : n \notin kb.safes /\ n \in kb.mines}
    IN  Sentence(unknown_neighbors, count - Cardinality(known_mine_neighbors))

\* The append of lines 91-92 without `if new_sentence.cells`.
append_sentence_always(k, s) == Append(k, s)

\* `if new_sentence.cells: self.knowledge.append(new_sentence)` (lines 91-92).
append_sentence(k, s) == IF s.cells # {} THEN Append(k, s) ELSE k

\* add_knowledge up to the call of update_knowledge, and `changed = True`.
observe(c, count) ==
    /\ pc = "idle"
    /\ random_move.phase # "loop"
    /\ calls < MaxCalls
    /\ cell' = c
    /\ LET kb == mark_safe(KB(mines, safes, knowledge), c)
           s == new_sentence(kb, c, count)
       IN  /\ moves_made' = moves_made \cup {c}
           /\ mines' = kb.mines
           /\ safes' = kb.safes
           /\ knowledge' = append_sentence(kb.knowledge, s)
    /\ changed' = TRUE
    /\ pc' = "while"
    /\ calls' = calls + 1
    /\ rounds' = 0
    /\ safe_move' = NoMove
    /\ random_move' = NoRandom
    /\ UNCHANGED <<height, width, truth, i, j>>

add_knowledge(c, count) == observe(c, count) /\ UNCHANGED <<conf, hist>>

\* The caller reveals a cell that is not a mine and reports the true count.
Reveal == \E c \in Board \ truth : add_knowledge(c, nearby_mines(c))

\* ------------------------------------------------------------------ update_knowledge
\* The while test without `changed = False`.
WhileTestNoReset ==
    /\ pc = "while"
    /\ IF changed
       THEN /\ i' = 1
            /\ pc' = "extract"
            /\ rounds' = IF rounds < MaxRounds THEN rounds + 1 ELSE rounds
            /\ UNCHANGED changed
       ELSE /\ pc' = "idle"
            /\ UNCHANGED <<changed, i, rounds>>
    /\ UNCHANGED <<height, width, truth, moves_made, mines, safes, knowledge,
                   j, calls, cell, safe_move, hist,
                   random_move, conf>>

\* `while changed: changed = False`, or the return when nothing changed.
WhileTest ==
    /\ pc = "while"
    /\ IF changed
       THEN /\ changed' = FALSE
            /\ i' = 1
            /\ pc' = "extract"
            /\ rounds' = IF rounds < MaxRounds THEN rounds + 1 ELSE rounds
       ELSE /\ pc' = "idle"
            /\ UNCHANGED <<changed, i, rounds>>
    /\ UNCHANGED <<height, width, truth, moves_made, mines, safes, knowledge,
                   j, calls, cell, safe_move, hist,
                   random_move, conf>>

\* The loop body without its two `changed = True`.
extract_unflagged(kb, ch, n) ==
    LET ks == known_safes(kb.knowledge[n])
        km == known_mines(kb.knowledge[n])
        kb1 == IF ks # {}
               THEN mark_safe_all([kb EXCEPT !.safes = @ \cup ks], ks)
               ELSE kb
    IN  [kb |-> IF km # {}
                THEN mark_mine_all([kb1 EXCEPT !.mines = @ \cup km], km)
                ELSE kb1,
         changed |-> ch]

\* The loop body without its `if safes:` block.
extract_mines_only(kb, ch, n) ==
    LET km == known_mines(kb.knowledge[n])
    IN  IF km # {}
        THEN [kb |-> mark_mine_all([kb EXCEPT !.mines = @ \cup km], km), changed |-> TRUE]
        ELSE [kb |-> kb, changed |-> ch]

\* One iteration of `for sentence in self.knowledge` (lines 121-133): the
\* knowledge base and `changed` after it.
extract(kb, ch, n) ==
    LET sentence == kb.knowledge[n]
        ks == known_safes(sentence)
        km == known_mines(sentence)
        r1 == IF ks # {}
              THEN [kb |-> mark_safe_all([kb EXCEPT !.safes = @ \cup ks], ks),
                    changed |-> TRUE]
              ELSE [kb |-> kb, changed |-> ch]
    IN  IF km # {}
        THEN [kb |-> mark_mine_all([r1.kb EXCEPT !.mines = @ \cup km], km),
              changed |-> TRUE]
        ELSE r1

ExtractStep ==
    /\ pc = "extract"
    /\ i <= Len(knowledge)
    /\ LET r == extract(KB(mines, safes, knowledge), changed, i)
       IN  /\ mines' = r.kb.mines
           /\ safes' = r.kb.safes
           /\ knowledge' = r.kb.knowledge
           /\ changed' = r.changed
    /\ i' = i + 1
    /\ UNCHANGED <<height, width, truth, moves_made, pc, j, calls, cell, rounds, safe_move, hist,
                   random_move, conf>>

\* `self.knowledge = [s for s in self.knowledge if s.cells]`
collect(k) == SelectSeq(k, LAMBDA s : s.cells # {})

GarbageCollect ==
    /\ pc = "extract"
    /\ i > Len(knowledge)
    /\ knowledge' = collect(knowledge)
    /\ pc' = "subsume"
    /\ i' = 1
    /\ j' = 1
    /\ UNCHANGED <<height, width, truth, moves_made, mines, safes, changed,
                   calls, cell, rounds, safe_move, hist,
                   random_move, conf>>

\* subsumes without the pairs of sentences with equal counts.
subsumes_unequal_counts(s1, s2) ==
    ~SentenceEq(s1, s2) /\ s1.cells \subseteq s2.cells /\ s1.count # s2.count

\* The guard of line 137.
subsumes(s1, s2) == ~SentenceEq(s1, s2) /\ s1.cells \subseteq s2.cells

\* The sentence of lines 138-140 with the counts subtracted the wrong way round.
difference_swapped(s1, s2) == Sentence(s2.cells \ s1.cells, s1.count - s2.count)

\* The sentence of lines 138-140.
difference(s1, s2) == Sentence(s2.cells \ s1.cells, s2.count - s1.count)

\* The guard of line 141 without `new_sentence not in self.knowledge`.
is_new_unchecked(s, k) == s.cells # {}

\* The guard of line 141.
is_new(s, k) == ~InKnowledge(s, k) /\ s.cells # {}

\* Whether the pair (k[a], k[b]) makes the subsumption pass append.
fires(k, a, b) ==
    subsumes(k[a], k[b]) /\ is_new(difference(k[a], k[b]), k)

\* subsume without `changed = True` (line 143).
subsume_unflagged(k, ch, a, b) ==
    IF fires(k, a, b)
    THEN [knowledge |-> Append(k, difference(k[a], k[b])), changed |-> ch]
    ELSE [knowledge |-> k, changed |-> ch]

\* Lines 137-143 for sentence1 = k[a], sentence2 = k[b]: the list and
\* `changed` after them.
subsume(k, ch, a, b) ==
    IF fires(k, a, b)
    THEN [knowledge |-> Append(k, difference(k[a], k[b])), changed |-> TRUE]
    ELSE [knowledge |-> k, changed |-> ch]

\* One iteration of `for sentence2 in self.knowledge` (lines 137-143).
SubsumeStep ==
    /\ pc = "subsume"
    /\ i <= Len(knowledge)
    /\ j <= Len(knowledge)
    /\ LET r == subsume(knowledge, changed, i, j)
       IN  /\ knowledge' = r.knowledge
           /\ changed' = r.changed
    /\ j' = j + 1
    /\ UNCHANGED <<height, width, truth, moves_made, mines, safes, pc, i,
                   calls, cell, rounds, safe_move, hist,
                   random_move, conf>>

\* The inner loop is exhausted: the next sentence1.
NextSentence1 ==
    /\ pc = "subsume"
    /\ i <= Len(knowledge)
    /\ j > Len(knowledge)
    /\ i' = i + 1
    /\ j' = 1
    /\ UNCHANGED <<height, width, truth, moves_made, mines, safes, knowledge,
                   pc, changed, calls, cell, rounds, safe_move, hist,
                   random_move, conf>>

\* The outer loop is exhausted: back to the while test (the loop variables
\* are dead from here on).
SubsumeDone ==
    /\ pc = "subsume"
    /\ i > Len(knowledge)
    /\ pc' = "while"
    /\ i' = 1
    /\ j' = 1
    /\ UNCHANGED <<height, width, truth, moves_made, mines, safes, knowledge,
                   changed, calls, cell, rounds, safe_move, hist,
                   random_move, conf>>

\* ------------------------------------------------------------------ make_safe_move
\* make_safe_move without the test of moves_made.
safe_candidates_any(s, m) == s

\* The cells make_safe_move may return: its loop returns the first cell of
\* `safes`, in the set's iteration order, that is not in moves_made.
safe_candidates(s, m) == {c \in s : c \notin m}

make_safe_move ==
    /\ pc = "idle"
    /\ random_move.phase # "loop"
    /\ ~safe_move.called
    /\ \/ \E c \in safe_candidates(safes, moves_made) :
              safe_move' = [called |-> TRUE, cell |-> {c}]
       \/ /\ safe_candidates(safes, moves_made) = {}
          /\ safe_move' = [called |-> TRUE, cell |-> {}]
    /\ UNCHANGED <<height, width, truth, moves_made, mines, safes, knowledge,
                   pc, changed, i, j, calls, cell, rounds, hist, random_move,
                   conf>>

\* ------------------------------------------------------------------ make_random_move
\* The test that lets the loop return a move (line 106) without `not in mines`.
available_unflagged(move, made, m) == move \notin made

\* The test that lets the loop return a move (line 106).
available(move, made, m) == move \notin made /\ move \notin m

\* The test that lets the loop return None (line 108).
exhausted(made, m) == Cardinality(made) + Cardinality(m) = height * width

\* make_random_move is called and reaches `while True`.
make_random_move ==
    /\ pc = "idle"
    /\ random_move.phase = "none"
    /\ random_move' = [phase |-> "loop", cell |-> {}]
    /\ UNCHANGED <<height, width, truth, moves_made, mines, safes, knowledge,
                   pc, changed, i, j, calls, cell, rounds, safe_move, hist,
                   conf>>

\* One iteration of the loop with the sample `move` (lines 103-109).
RandomIteration(move) ==
    /\ pc = "idle"
    /\ random_move.phase = "loop"
    /\ random_move' =
           IF available(move, moves_made, mines)
             THEN [phase |-> "returned", cell |-> {move}]
             ELSE IF exhausted(moves_made, mines)
                    THEN [phase |-> "returned", cell |-> {}]
                    ELSE random_move
    /\ UNCHANGED <<height, width, truth, moves_made, mines, safes, knowledge,
                   pc, changed, i, j, calls, cell, rounds, safe_move, hist,
                   conf>>

\* random.randrange draws the sample from the board (lines 103-104).
RandomSample == \E move \in Board : RandomIteration(move)

\* ------------------------------------------------------------------ specification
Next ==
    \/ Reveal
    \/ WhileTest
    \/ ExtractStep
    \/ GarbageCollect
    \/ SubsumeStep
    \/ NextSentence1
    \/ SubsumeDone
    \/ make_safe_move
    \/ make_random_move
    \/ RandomSample

Spec == Init /\ [][Next]_vars

\* ------------------------------------------------------------------ update_knowledge, whole
\* `for sentence in self.knowledge` from sentence n on, in list order.
RECURSIVE extract_from(_, _, _)
extract_from(kb, ch, n) ==
    IF n > Len(kb.knowledge) THEN [kb |-> kb, changed |-> ch]
    ELSE LET r == extract(kb, ch, n)
         IN  extract_from(r.kb, r.changed, n + 1)

\* `for sentence2 in self.knowledge` from sentence b on, for sentence1 = k[a];
\* the sentences appended on the way are visited as the loop reaches them.
RECURSIVE subsume_with(_, _, _, _)
subsume_with(k, ch, a, b) ==
    IF b > Len(k) THEN [knowledge |-> k, changed |-> ch]
    ELSE LET r == subsume(k, ch, a, b)
         IN  subsume_with(r.knowledge, r.changed, a, b + 1)

\* `for sentence1 in self.knowledge` from sentence a on, in list order.
RECURSIVE subsume_from(_, _, _)
subsume_from(k, ch, a) ==
    IF a > Len(k) THEN [knowledge |-> k, changed |-> ch]
    ELSE LET r == subsume_with(k, ch, a, 1)
         IN  subsume_from(r.knowledge, r.changed, a + 1)

\* One round of `while changed` (lines 120-143).
round(kb) ==
    LET e == extract_from(kb, FALSE, 1)
        s == subsume_from(collect(e.kb.knowledge), e.changed, 1)
    IN  [kb |-> [e.kb EXCEPT !.knowledge = s.knowledge], changed |-> s.changed]

\* MinesweeperAI.update_knowledge, from its call to its return.
RECURSIVE update_knowledge(_)
update_knowledge(kb) ==
    LET r == round(kb)
    IN  IF r.changed THEN update_knowledge(r.kb) ELSE r.kb

\* ------------------------------------------------------------------ any visiting order
\* The same procedure with the visiting orders left open. The extraction pass
\* visits each sentence of the list once, in any order. The subsumption pass
\* visits sentence pairs in any order: a pair that does not fire when visited
\* cannot fire later in the pass (the sentences do not change and the list
\* only grows), so a pass is a sequence of firing pairs, and it may end once
\* no pair of the sentences it began with fires (pairs with appended
\* sentences may be left to the next round, as the list-order loops leave
\* some).
AnyOrderReveal ==
    \E c \in Board \ truth :
        /\ observe(c, nearby_mines(c))
        /\ conf' = [todo |-> {}, first |-> 0,
                    reference |-> update_knowledge(KB(mines', safes', knowledge'))]
        /\ UNCHANGED hist

AnyOrderWhileTest ==
    /\ pc = "while"
    /\ IF changed
       THEN /\ changed' = FALSE
            /\ pc' = "extract"
            /\ rounds' = IF rounds < MaxRounds THEN rounds + 1 ELSE rounds
            /\ conf' = [conf EXCEPT !.todo = DOMAIN knowledge]
       ELSE /\ pc' = "idle"
            /\ UNCHANGED <<changed, rounds, conf>>
    /\ UNCHANGED <<height, width, truth, moves_made, mines, safes, knowledge,
                   i, j, calls, cell, safe_move, hist,
                   random_move>>

AnyOrderExtract ==
    /\ pc = "extract"
    /\ \E n \in conf.todo :
          LET r == extract(KB(mines, safes, knowledge), changed, n)
          IN  /\ mines' = r.kb.mines
              /\ safes' = r.kb.safes
              /\ knowledge' = r.kb.knowledge
              /\ changed' = r.changed
              /\ conf' = [conf EXCEPT !.todo = @ \ {n}]
    /\ UNCHANGED <<height, width, truth, moves_made, pc, i, j, calls, cell,
                   rounds, safe_move, hist,
                   random_move>>

AnyOrderCollect ==
    /\ pc = "extract"
    /\ conf.todo = {}
    /\ knowledge' = collect(knowledge)
    /\ pc' = "subsume"
    /\ conf' = [conf EXCEPT !.first = Len(knowledge')]
    /\ UNCHANGED <<height, width, truth, moves_made, mines, safes, changed,
                   i, j, calls, cell, rounds, safe_move, hist,
                   random_move>>

AnyOrderSubsume ==
    /\ pc = "subsume"
    /\ \E a, b \in DOMAIN knowledge :
          /\ fires(knowledge, a, b)
          /\ knowledge' = subsume(knowledge, changed, a, b).knowledge
          /\ changed' = subsume(knowledge, changed, a, b).changed
    /\ UNCHANGED <<height, width, truth, moves_made, mines, safes, pc, i, j,
                   calls, cell, rounds, safe_move, hist,
                   random_move, conf>>

AnyOrderSubsumeDone ==
    /\ pc = "subsume"
    /\ \A a, b \in 1..conf.first : ~fires(knowledge, a, b)
    /\ pc' = "while"
    /\ UNCHANGED <<height, width, truth, moves_made, mines, safes, knowledge,
                   changed, i, j, calls, cell, rounds, safe_move, hist,
                   random_move, conf>>

AnyOrderNext ==
    \/ AnyOrderReveal
    \/ AnyOrderWhileTest
    \/ AnyOrderExtract
    \/ AnyOrderCollect
    \/ AnyOrderSubsume
    \/ AnyOrderSubsumeDone

AnyOrderSpec == Init /\ [][AnyOrderNext]_vars

\* ------------------------------------------------------------------ any count
\* The caller passes add_knowledge a cell and a count of its own choosing:
\* the code does not check the count against a board, and the scenarios of
\* the documentation are calls of this kind.
Report ==
    \E c \in Board : \E count \in 0..MaxCount :
        /\ observe(c, count)
        /\ hist' = Append(hist, [cell |-> c, count |-> count])
        /\ UNCHANGED conf

AnyCountInit == Init /\ truth = {}

AnyCountNext ==
    \/ Report
    \/ WhileTest
    \/ ExtractStep
    \/ GarbageCollect
    \/ SubsumeStep
    \/ NextSentence1
    \/ SubsumeDone

AnyCountSpec == AnyCountInit /\ [][AnyCountNext]_vars

\* ------------------------------------------------------------------ properties
\* The sentences of the knowledge list.
Live == {knowledge[n] : n \in DOMAIN knowledge}

\* A sentence synthesized by subsumption is in the list: add_knowledge appends
\* at most one sentence per call, the subsumption pass appends the others.
Synthesized == Len(knowledge) > calls

\* C1: soundness against ground truth. Under observations that report the
\* true counts of cells that are not mines, every cell in `mines` is a true
\* mine and no cell in `safes` is a true mine, in every reachable state.
C1_Soundness == mines \subseteq truth /\ safes \cap truth = {}

\* A returned call has inferred a mine and a safe cell that was never revealed.
C1_Witness ==
    /\ pc = "idle"
    /\ mines # {}
    /\ safes \ moves_made # {}

\* C2: `mines` and `safes` have no cell in common, in every reachable state,
\* the states between the steps of the fixpoint loop included.
C2_Disjoint == mines \cap safes = {}

\* Inside the fixpoint loop, with both sets inferred from sentences.
C2_Witness ==
    /\ pc \in {"extract", "subsume"}
    /\ mines # {}
    /\ safes \ moves_made # {}
    /\ knowledge # <<>>

\* C3: every sentence of `knowledge` has 0 <= count <= |cells|, in every
\* reachable state.
C3_SentenceInvariant ==
    \A s \in Live : 0 <= s.count /\ s.count <= Cardinality(s.cells)

\* A sentence synthesized by subsumption is live next to a sentence that
\* mark_mine has emptied (count 0 over no cells) and not yet collected.
C3_Witness ==
    /\ Synthesized
    /\ mines # {}
    /\ \E s \in Live : s.cells # {} /\ 0 < s.count /\ s.count < Cardinality(s.cells)

\* C4: every sentence of `knowledge` is true of the board: the number of true
\* mines among its cells is its count, in every reachable state (so every
\* sentence the subsumption pass appends is true of the board).
C4_SentencesTrue ==
    \A s \in Live : Cardinality(s.cells \cap truth) = s.count

\* The subsumption pass has just appended a sentence: it is the last of the
\* list, the pass is still running, and the sentence is not yet resolved.
C4_Witness ==
    /\ pc = "subsume"
    /\ changed
    /\ Synthesized
    /\ knowledge[Len(knowledge)].cells \cap truth # {}
    /\ knowledge[Len(knowledge)].cells \ truth # {}

\* Cells of a sentence whose count equals its number of cells, not yet in `mines`.
PendingMines ==
    UNION {s.cells : s \in {l \in Live : l.count = Cardinality(l.cells)}} \ mines

\* Cells of a sentence whose count is 0, not yet in `safes`.
PendingSafes ==
    UNION {s.cells : s \in {l \in Live : l.count = 0}} \ safes

\* C5: known-mines correctness. A cell of a sentence with count = |cells| either
\* enters `mines` or stays a cell of such a sentence at every step, and the
\* call does not return while such a cell is outside `mines`: so when the
\* add_knowledge call returns, every cell that was in such a sentence at any
\* point of the call is in `mines`.
C5_KnownMines ==
    [][\A c \in PendingMines :
         /\ pc' # "idle"
         /\ c \in mines' \/ c \in PendingMines']_vars

\* A sentence the extraction pass has already visited in this round now has
\* count = |cells|: narrowing by a later sentence's safes made it so, and
\* only a further round can move its cells to `mines`.
C5_Witness ==
    /\ pc = "extract"
    /\ \E n \in 1..(i - 1) :
          /\ n <= Len(knowledge)
          /\ knowledge[n].cells # {}
          /\ knowledge[n].count = Cardinality(knowledge[n].cells)

\* C6: known-safes correctness. A cell of a sentence with count = 0 either
\* enters `safes` or stays a cell of such a sentence at every step, and the
\* call does not return while such a cell is outside `safes`: so when the
\* add_knowledge call returns, every cell that was in such a sentence at any
\* point of the call is in `safes`.
C6_KnownSafes ==
    [][\A c \in PendingSafes :
         /\ pc' # "idle"
         /\ c \in safes' \/ c \in PendingSafes']_vars

\* A sentence the extraction pass has already visited in this round now has
\* count 0 over some cells: a later sentence's mines narrowed it.
C6_Witness ==
    /\ pc = "extract"
    /\ \E n \in 1..(i - 1) :
          /\ n <= Len(knowledge)
          /\ knowledge[n].cells # {}
          /\ knowledge[n].count = 0

\* The steps of update_knowledge: once add_knowledge has called it, the
\* interpreter runs it to its return.
UpdateStep ==
    \/ WhileTest
    \/ ExtractStep
    \/ GarbageCollect
    \/ SubsumeStep
    \/ NextSentence1
    \/ SubsumeDone

FairSpec == Init /\ [][Next]_vars /\ WF_vars(UpdateStep)

\* C7: termination. Every add_knowledge call returns: the fixpoint loop of
\* update_knowledge reaches a round without change.
C7_Termination == (pc # "idle") ~> (pc = "idle")

\* A call has returned after three rounds or more, with a sentence synthesized
\* by subsumption still in the list.
C7_Witness ==
    /\ pc = "idle"
    /\ rounds >= 3
    /\ Synthesized

\* C8: make_safe_move returns a cell of `safes` that is not in `moves_made`
\* when there is one, and None exactly when every cell of `safes` is in
\* `moves_made`; the cell it returns is not a true mine.
C8_SafeMove ==
    safe_move.called =>
        /\ safe_move.cell = {} <=> safes \subseteq moves_made
        /\ safe_move.cell \subseteq safes \ moves_made
        /\ safe_move.cell \cap truth = {}

\* make_safe_move has returned an inferred cell on a board with mines, where
\* some cells are known mines.
C8_Witness ==
    /\ safe_move.called
    /\ safe_move.cell # {}
    /\ mines # {}

\* C10: when add_knowledge(cell, 0) has returned, every neighbour of cell is in
\* `safes`; on a fresh 3x3 board, after add_knowledge((1,1), 0), `safes` is
\* the whole board, `mines` is empty and `knowledge` is empty.
C10_ZeroObservation ==
    (pc = "idle" /\ calls > 0 /\ Adjacent(cell) \cap truth = {}) =>
        /\ Adjacent(cell) \subseteq safes
        /\ (height = 3 /\ width = 3 /\ calls = 1 /\ cell = <<1, 1>>) =>
              /\ safes = Board
              /\ mines = {}
              /\ knowledge = <<>>

\* The first call on a 3x3 board was add_knowledge((1,1), 0), and has returned.
C10_Witness ==
    /\ pc = "idle"
    /\ height = 3
    /\ width = 3
    /\ calls = 1
    /\ cell = <<1, 1>>
    /\ truth = {}
    /\ Cardinality(safes) = 9

\* The distinct sentences of a list.
Sentences(k) == {k[n] : n \in DOMAIN k}

\* How many times sentence s stands in list k.
Copies(k, s) == Cardinality({n \in DOMAIN k : k[n] = s})

\* Two lists hold the same sentences the same number of times.
SameCollection(k1, k2) ==
    \A s \in Sentences(k1) \cup Sentences(k2) : Copies(k1, s) = Copies(k2, s)

\* The call has returned with the same `mines` and `safes` as in list order.
SameFacts ==
    /\ mines = conf.reference.mines
    /\ safes = conf.reference.safes

\* C9 as amended: whatever the order in which the extraction pass visits the
\* sentences and the subsumption pass the pairs, the call returns with the
\* same `mines`, the same `safes` and the same distinct sentences in
\* `knowledge` as in list order (the number of copies of a sentence aside).
C9_Confluence ==
    (pc = "idle" /\ calls > 0) =>
        /\ SameFacts
        /\ Sentences(knowledge) = Sentences(conf.reference.knowledge)

\* C9 as claimed: the call returns with the same `mines`, the same `safes` and
\* the same `knowledge` as an unordered collection of sentences.
C9_SameCollection ==
    (pc = "idle" /\ calls > 0) =>
        /\ SameFacts
        /\ SameCollection(knowledge, conf.reference.knowledge)

\* A call has returned with a mine inferred, a sentence left, and a list that
\* is not the list the list-order run leaves.
C9_Witness ==
    /\ pc = "idle"
    /\ calls > 0
    /\ mines # {}
    /\ knowledge # <<>>
    /\ knowledge # conf.reference.knowledge

\* ------------------------------------------------------------------ marks
\* mark_mine and mark_safe called directly, on any cell, from a knowledge
\* base that holds any sentences: `cell` is the argument and `pc` the name
\* of the method that returned last.
SentencesOver(cells) ==
    {Sentence(x, count) : x \in SUBSET cells, count \in 0..MaxCount}

ListsOver(cells) ==
    UNION {[1..n -> SentencesOver(cells)] : n \in 0..MaxSentences}

MarkInit ==
    /\ height \in 1..MaxHeight
    /\ width \in 1..MaxWidth
    /\ height * width <= MaxCells
    /\ truth = {}
    /\ moves_made = {}
    /\ mines = {}
    /\ safes = {}
    /\ knowledge \in ListsOver(Board)
    /\ pc = "idle"
    /\ changed = FALSE
    /\ i = 1
    /\ j = 1
    /\ calls = 0
    /\ cell = <<0, 0>>
    /\ rounds = 0
    /\ safe_move = NoMove
    /\ hist = <<>>
    /\ random_move = NoRandom
    /\ conf = NoOrder

Marked(kb, c, method) ==
    /\ mines' = kb.mines
    /\ safes' = kb.safes
    /\ knowledge' = kb.knowledge
    /\ cell' = c
    /\ pc' = method
    /\ UNCHANGED <<height, width, truth, moves_made, changed, i, j, calls,
                   rounds, safe_move, hist, random_move, conf>>

MarkMine == \E c \in Board :
    Marked(mark_mine(KB(mines, safes, knowledge), c), c, "mark_mine")

MarkSafe == \E c \in Board :
    Marked(mark_safe(KB(mines, safes, knowledge), c), c, "mark_safe")

MarkNext == MarkMine \/ MarkSafe

MarkSpec == MarkInit /\ [][MarkNext]_vars

\* ------------------------------------------------------------------ C11
Call(c, count) == [cell |-> c, count |-> count]

\* The calls of the scenario: add_knowledge((1,1), 0), then add_knowledge((0,0), 1).
CornerAfterCentre == <<Call(<<1, 1>>, 0), Call(<<0, 0>>, 1)>>

\* The same calls with the count 1 for the centre.
CornerAfterCentreOne == <<Call(<<1, 1>>, 1), Call(<<0, 0>>, 1)>>

OnBoard3x3(calls_made) == height = 3 /\ width = 3 /\ hist = calls_made

\* C11 as stated: on a 3x3 board, after add_knowledge((1,1), 0) followed by
\* add_knowledge((0,0), 1), knowledge holds the sentence {(0,1),(1,0)} = 1
\* when the call returns.
C11_Unresolved ==
    (OnBoard3x3(CornerAfterCentre) /\ pc = "idle") =>
        InKnowledge(Sentence({<<0, 1>>, <<1, 0>>}, 1), knowledge)

\* C11, amended: after those two calls every neighbour of (0,0) is in `safes`
\* (the first call made the eight neighbours of (1,1) safe), so the second
\* call appends no sentence and knowledge is empty from the second call on;
\* the sentence {(0,1),(1,0)} = 1 is in knowledge at return when the first
\* call reported the count 1 for (1,1).
C11_NothingAppended ==
    /\ OnBoard3x3(CornerAfterCentre) =>
          /\ get_neighbors(height, width, <<0, 0>>) \subseteq safes
          /\ knowledge = <<>>
          /\ mines = {}
    /\ (OnBoard3x3(CornerAfterCentreOne) /\ pc = "idle") =>
          /\ InKnowledge(Sentence({<<0, 1>>, <<1, 0>>}, 1), knowledge)
          /\ {<<0, 1>>, <<1, 0>>} \cap (safes \cup mines) = {}

\* The second call of the scenario has returned.
C11_Witness == OnBoard3x3(CornerAfterCentre) /\ pc = "idle"

\* ------------------------------------------------------------------ C12
\* The cells B.cells - A.cells of the sentences A, B of `knowledge` with
\* A.cells a proper subset of B.cells and A.count = B.count.
EqualCountExtra ==
    UNION {b.cells \ a.cells : <<a, b>> \in
             {p \in Live \X Live : /\ p[1].cells \subseteq p[2].cells
                                   /\ p[1].cells # p[2].cells
                                   /\ p[1].count = p[2].count}}

\* Such cells, and the cells of the sentences with count 0, not yet in `safes`.
DueSafes == (EqualCountExtra \cup PendingSafes) \ safes

\* C12: equal-count subsumption resolves the extra cells. A cell of
\* B.cells - A.cells, for sentences with A.cells a proper subset of B.cells
\* and A.count = B.count, enters `safes` or stays such a cell or a cell of a
\* sentence with count 0 at every step, and the call does not return while
\* it is outside `safes`: so every such cell of the list the fixpoint
\* procedure starts with is in `safes` when the procedure returns.
C12_EqualCount ==
    [][\A c \in DueSafes :
         /\ pc' # "idle"
         /\ c \in safes' \/ c \in DueSafes']_vars

\* The fixpoint procedure starts with two such sentences, neither of them
\* with count 0: only the subsumption pass can make the extra cells safe.
C12_Witness ==
    /\ pc = "while"
    /\ rounds = 0
    /\ EqualCountExtra \ PendingSafes # {}

\* ------------------------------------------------------------------ C13
\* C13: propagation. When add_knowledge has returned, no sentence of
\* `knowledge` has a cell that is in `mines` or in `safes`.
C13_Propagated ==
    pc = "idle" => \A s \in Live : s.cells \cap (mines \cup safes) = {}

\* A returned call has left sentences in `knowledge`, one of them next to a
\* cell that the calls have put in `mines` and to one they have put in `safes`.
C13_Witness ==
    /\ pc = "idle"
    /\ calls > 0
    /\ \E s \in Live : \E c \in s.cells :
          /\ Adjacent(c) \cap mines # {}
          /\ Adjacent(c) \cap (safes \ moves_made) # {}

\* ------------------------------------------------------------------ C14
\* C14: no empty sentence. A step that appends a sentence to `knowledge`
\* (add_knowledge, or the subsumption pass) appends one with cells, and
\* when add_knowledge has returned no sentence of `knowledge` is without cells.
C14_NoEmptySentence ==
    [][/\ Len(knowledge') > Len(knowledge) =>
             knowledge'[Len(knowledge')].cells # {}
       /\ pc' = "idle" =>
             \A n \in DOMAIN knowledge' : knowledge'[n].cells # {}]_vars

\* add_knowledge has just found every neighbour of its cell in `safes` or
\* `mines` and appended nothing to a list that holds sentences.
C14_Witness ==
    /\ pc = "while"
    /\ rounds = 0
    /\ Adjacent(cell) # {}
    /\ Adjacent(cell) \subseteq safes \cup mines
    /\ knowledge # <<>>

\* ------------------------------------------------------------------ C15
\* An iteration of make_random_move's loop whose sample passes the test of
\* line 106.
RandomAccept ==
    \E move \in Board :
        available(move, moves_made, mines) /\ RandomIteration(move)

\* Fair random sampling: while a cell passes the test, the loop does not
\* draw cells that fail it forever; update_knowledge runs to its return.
FairSamplingSpec ==
    Init /\ [][Next]_vars /\ WF_vars(UpdateStep) /\ WF_vars(RandomAccept)

\* The cells of the board in neither `moves_made` nor `mines`.
Untried == Board \ (moves_made \cup mines)

\* What make_random_move has returned is a cell of the board in neither
\* `moves_made` nor `mines`, or None; None exactly when no such cell is left,
\* which is when len(moves_made) + len(mines) == height * width.
RandomMoveSafe ==
    random_move.phase = "returned" =>
        /\ random_move.cell \subseteq Untried
        /\ random_move.cell = {} <=> Untried = {}
        /\ random_move.cell = {} <=>
              Cardinality(moves_made) + Cardinality(mines) = height * width

\* C15: make_random_move never returns a cell of `moves_made` or `mines`,
\* returns only cells of the board, and returns None exactly when every
\* cell of the board is in `moves_made` or `mines`; while a cell is left,
\* a call eventually returns one under fair random sampling.
C15_RandomMove ==
    /\ []RandomMoveSafe
    /\ (random_move.phase = "loop" /\ Untried # {}) ~>
          (random_move.phase = "returned" /\ random_move.cell # {})

\* make_random_move has returned None on a board whose mines are all inferred.
C15_Witness ==
    /\ random_move.phase = "returned"
    /\ random_move.cell = {}
    /\ mines # {}

\* ------------------------------------------------------------------ C16
\* C16: marking is idempotent. A call of mark_mine (of mark_safe) with the
\* cell of the call of mark_mine (of mark_safe) just before it changes
\* neither `mines`, nor `safes`, nor any sentence of `knowledge`: the second
\* mark_mine does not decrement a count again.
C16_Idempotent ==
    [][(pc \in {"mark_mine", "mark_safe"} /\ pc' = pc /\ cell' = cell) =>
          /\ mines' = mines
          /\ safes' = safes
          /\ knowledge' = knowledge]_vars

\* mark_mine has returned, and has taken its cell out of a sentence with
\* count 0 (the count is now below 0) and of another that still has cells.
C16_Witness ==
    /\ pc = "mark_mine"
    /\ cell \in mines
    /\ \E s \in Live : s.count < 0
    /\ \E s \in Live : s.cells # {} /\ s.count >= 0

\* ------------------------------------------------------------------ C17
\* The list `k` with the cell `c` taken out of every sentence, counts kept.
Without(k, c) ==
    [n \in DOMAIN k |-> [cells |-> k[n].cells \ {c}, count |-> k[n].count]]

\* C17: observation ingestion. The step of add_knowledge(cell, n) that comes
\* before the fixpoint procedure adds the cell to `moves_made` and to
\* `safes`, takes it out of the sentences, and appends the sentence whose
\* cells are the neighbours on the board in neither `safes` nor `mines` and
\* whose count is n minus the number of neighbours in `mines`; it appends
\* nothing when there is no such neighbour.
C17_Ingestion ==
    [][calls' = calls + 1 =>
         LET c == cell'
             unknown == Adjacent(c) \ (safes \cup mines)
             count == nearby_mines(c) - Cardinality(Adjacent(c) \cap mines)
         IN  /\ moves_made' = moves_made \cup {c}
             /\ safes' = safes \cup {c}
             /\ mines' = mines
             /\ knowledge' =
                   IF unknown = {} THEN Without(knowledge, c)
                   ELSE Append(Without(knowledge, c),
                               [cells |-> unknown, count |-> count])
             /\ pc' = "while"
             /\ rounds' = 0]_vars

\* add_knowledge has just appended a sentence for a cell with a neighbour in
\* `mines`, a neighbour in `safes` and a neighbour in neither; the fixpoint
\* procedure has not begun.
C17_Witness ==
    /\ pc = "while"
    /\ rounds = 0
    /\ Adjacent(cell) \cap mines # {}
    /\ Adjacent(cell) \cap safes # {}
    /\ knowledge # <<>>
    /\ knowledge[Len(knowledge)].cells = Adjacent(cell) \ (safes \cup mines)
    /\ knowledge[Len(knowledge)].cells # {}

\* ------------------------------------------------------------------ C18
\* C18: closure at return. When add_knowledge has returned, no sentence of
\* `knowledge` has count 0 or count = |cells|, and for every two sentences
\* A # B of `knowledge` with A.cells a subset of B.cells the sentence
\* (B.cells - A.cells, B.count - A.count) has no cells or is in `knowledge`.
C18_Closure ==
    pc = "idle" =>
        /\ \A s \in Live : s.count # 0 /\ s.count # Cardinality(s.cells)
        /\ \A a \in Live : \A b \in Live :
              (a # b /\ a.cells \subseteq b.cells) =>
                  \/ b.cells \ a.cells = {}
                  \/ [cells |-> b.cells \ a.cells,
                      count |-> b.count - a.count] \in Live

\* A returned call has left a sentence, a sentence over more cells, and so
\* their difference, in `knowledge`.
C18_Witness ==
    /\ pc = "idle"
    /\ \E a \in Live : \E b \in Live :
          /\ a.cells \subseteq b.cells
          /\ a.cells # b.cells
          /\ a.cells # {}

\* ------------------------------------------------------------------ C19
\* C19 as stated: when add_knowledge has returned, no two sentences of
\* `knowledge` are equal (same cells, same count).
C19_NoDuplicates ==
    pc = "idle" =>
        \A m \in DOMAIN knowledge : \A n \in DOMAIN knowledge :
            m # n => knowledge[m] # knowledge[n]

\* C19, amended: deduplication at insertion. The subsumption pass appends a
\* sentence only if no sentence with the same cells and the same count is in
\* `knowledge` at that moment.
C19_NewWhenAppended ==
    [][(pc = "subsume" /\ Len(knowledge') > Len(knowledge)) =>
          \A n \in DOMAIN knowledge :
              knowledge[n] # knowledge'[Len(knowledge')]]_vars

\* The subsumption pass has just met a pair whose difference has cells and
\* was in `knowledge` already, and has not appended it again.
C19_Witness ==
    /\ pc = "subsume"
    /\ i <= Len(knowledge)
    /\ j > 1
    /\ j - 1 <= Len(knowledge)
    /\ LET a == knowledge[i]
           b == knowledge[j - 1]
           d == [cells |-> b.cells \ a.cells, count |-> b.count - a.count]
       IN  /\ a # b
           /\ a.cells \subseteq b.cells
           /\ d.cells # {}
           /\ Cardinality({n \in DOMAIN knowledge : knowledge[n] = d}) = 1
           /\ knowledge[Len(knowledge)] # d

\* ------------------------------------------------------------------ C20
\* C20: every revealed cell is a safe cell, and the three sets only grow.
\* At every step `moves_made`, `safes` and `mines` keep their cells; in
\* every state `moves_made` is a subset of `safes` and has no cell in common
\* with `mines`, so that len(moves_made) + len(mines) == height * width
\* exactly when every cell of the board is in one of the two.
C20_MovesAreSafe ==
    [][/\ moves_made \subseteq moves_made'
       /\ safes \subseteq safes'
       /\ mines \subseteq mines'
       /\ moves_made' \subseteq safes'
       /\ moves_made' \cap mines' = {}
       /\ Cardinality(moves_made') + Cardinality(mines') = height * width
             <=> Board \subseteq moves_made' \cup mines']_vars

\* Every cell of a board with mines is revealed or in `mines`, and a cell
\* was revealed more than once.
C20_Witness ==
    /\ pc = "idle"
    /\ mines # {}
    /\ Board \subseteq moves_made \cup mines
    /\ Cardinality(moves_made) < calls
====
